---- MODULE Spec2Model ----
(***************************************************************************)
(* A model of interactive_three_statement_sec.py: the SEC fact selection   *)
(* (pick_latest_annual_usd), the base-year normalizer                      *)
(* (build_base_year_from_sec) and the forecast recurrence (forecast).      *)
(*                                                                         *)
(* Amounts and rates are exact dyadic rationals num / 2^exp, kept in       *)
(* lowest terms.  Amounts are counted in hundredths of a dollar, so that   *)
(* rounding to two decimals is rounding to an integer.  The rounding error *)
(* of the individual float operations is not modelled.                     *)
(***************************************************************************)
EXTENDS Integers, Sequences, FiniteSets, TLC

VARIABLES
    base,          \* forecast: the BaseYear argument
    a,             \* forecast: the Assumptions argument
    objectRound,   \* forecast: whether the installed pandas rounds object-dtype columns
    pc,            \* forecast: "start", "loop", "done"
    years,         \* forecast: the list `years`
    yi,            \* forecast: position of the loop in years[1:]
    IS,            \* forecast: income-statement frame
    BS,            \* forecast: balance-sheet frame
    CF,            \* forecast: cash-flow frame
    loc,           \* forecast: the loop's locals ebit, interest, taxes, ni, capex
    out,           \* forecast: the returned dict of frames
    facts,         \* normalizer: the company-facts mapping, per tag
    npc,           \* normalizer: "start", "done"
    norm,          \* normalizer: the outcome of build_base_year_from_sec
    picked         \* selection: the outcome of one pick_latest_annual_usd call

vars == <<base, a, objectRound, pc, years, yi, IS, BS, CF, loc, out, facts, npc, norm, picked>>

fvars == <<base, a, objectRound, pc, years, yi, IS, BS, CF, loc, out>>

nvars == <<facts, npc, norm, picked>>

----------------------------------------------------------------------------
(* Exact dyadic arithmetic.                                                *)

RECURSIVE Pow2(_)
Pow2(k) == IF k <= 0 THEN 1 ELSE 2 * Pow2(k - 1)

RECURSIVE Norm(_)
Norm(x) ==
    IF x.exp > 0 /\ x.num % 2 = 0
    THEN Norm([num |-> x.num \div 2, exp |-> x.exp - 1])
    ELSE x

D(n, e) == Norm([num |-> n, exp |-> e])

Zero == D(0, 0)

One == D(1, 0)

Half == D(1, 1)

\* A cell that was never assigned (pandas' NaN).
NaN == [num |-> 0, exp |-> -1]

MaxExp(x, y) == IF x.exp >= y.exp THEN x.exp ELSE y.exp

\* The numerator of x over the denominator 2^e, for e >= x.exp.
Lift(x, e) == x.num * Pow2(e - x.exp)

Add(x, y) == D(Lift(x, MaxExp(x, y)) + Lift(y, MaxExp(x, y)), MaxExp(x, y))

Neg(x) == [num |-> 0 - x.num, exp |-> x.exp]

Sub(x, y) == Add(x, Neg(y))

Mul(x, y) == D(x.num * y.num, x.exp + y.exp)

Leq(x, y) == Lift(x, MaxExp(x, y)) <= Lift(y, MaxExp(x, y))

Lt(x, y) == Lift(x, MaxExp(x, y)) < Lift(y, MaxExp(x, y))

Abs(x) == IF x.num < 0 THEN Neg(x) ELSE x

\* Python's max(0, x): x when x > 0, else 0.
Max0(x) == IF Lt(Zero, x) THEN x ELSE Zero

\* Round half to even to an integer number of hundredths (numpy's rint of
\* the value scaled by 100); a NaN cell stays NaN.
Round2(x) ==
    IF x = NaN THEN NaN
    ELSE LET d == Pow2(x.exp)
             q == x.num \div d
             r == x.num % d
         IN  IF 2 * r < d THEN D(q, 0)
             ELSE IF 2 * r > d THEN D(q + 1, 0)
             ELSE IF q % 2 = 0 THEN D(q, 0) ELSE D(q + 1, 0)

----------------------------------------------------------------------------
(* Bounds and input sets of the forecast.                                  *)

MaxYears == 2

MinYears == 0 - 1

Quarter == D(1, 2)

\* BaseYear.tax_rate, in percent.
BaseTaxRatePct == 21

Amt(n) == D(n, 0)

BaseYearOf(yr, rev, nim, cash, ppe, oca, debt, eq) ==
    [year |-> yr, revenue |-> rev, cogs |-> Zero, sga |-> Zero, da |-> Zero,
     interest |-> Zero, tax_rate |-> BaseTaxRatePct, net_income |-> nim,
     cash |-> cash, ar |-> Zero, inventory |-> Zero,
     other_current_assets |-> oca, ppe_net |-> ppe,
     other_noncurrent_assets |-> oca, ap |-> Zero,
     accrued_liabilities |-> Zero, other_current_liabilities |-> Zero,
     long_term_debt |-> debt, other_noncurrent_liabilities |-> Zero,
     common_equity |-> eq]

\* BaseYear amounts are dollar amounts as reported, whole hundredths; the two
\* "other" asset buckets are halves of such an amount.
BaseYears ==
    { BaseYearOf(2023, Amt(rev), Amt(10), Amt(cash), Amt(ppe), oca, Amt(debt), Amt(eq)) :
        rev \in {1, 100}, cash \in {0, 21}, ppe \in {0, 3}, oca \in {Zero, Half},
        debt \in {0, 30}, eq \in {0 - 5, 50} }

AssumptionsOf(n, g, cogs, i, t, capex, target) ==
    [years |-> n, revenue_growth |-> g, cogs_pct_rev |-> cogs,
     sga_pct_rev |-> Quarter, da_pct_rev |-> Zero, interest_pct_debt |-> i,
     tax_rate |-> t, ar_pct_rev |-> Zero, inv_pct_rev |-> Zero,
     ap_pct_rev |-> Zero, accrued_pct_rev |-> Zero, capex_pct_rev |-> capex,
     target_debt_pct_assets |-> target]

AssumptionSets ==
    { AssumptionsOf(n, g, cogs, i, t, Quarter, target) :
        n \in MinYears..MaxYears, g \in {Half, Neg(Half)}, cogs \in {Quarter, One},
        i \in {Zero, Half}, t \in {Quarter, Neg(Quarter)}, target \in {Zero, Half} }

ISCols == {"Revenue", "EBIT", "Net Income"}

BSCols == {"Cash", "Debt", "Equity", "Assets"}

CFCols == {"CFO", "CFI", "CFF", "DeltaCash"}

NoFrame == [y \in {} |-> NaN]

NoOut == [IS |-> NoFrame, BS |-> NoFrame, CF |-> NoFrame]

NoLocals == [ebit |-> NaN, interest |-> NaN, taxes |-> NaN, ni |-> NaN, capex |-> NaN]

----------------------------------------------------------------------------
(* forecast                                                                *)

RECURSIVE RangeFrom(_, _, _)
\* [start + i for i in range(lo, hi)]
RangeFrom(start, lo, hi) ==
    IF lo >= hi THEN <<>> ELSE <<start + lo>> \o RangeFrom(start, lo + 1, hi)

YearsListShort(b, as) == <<b.year>> \o RangeFrom(b.year, 1, as.years)

YearsList(b, as) == <<b.year>> \o RangeFrom(b.year, 1, as.years + 1)

Index(ys) == { ys[i] : i \in 1..Len(ys) }

\* pd.DataFrame(index=years, columns=cols): every cell NaN.
EmptyFrame(ys, cols) == [y \in Index(ys) |-> [c \in cols |-> NaN]]

SeedISNoNetIncome(b, ys) ==
    [EmptyFrame(ys, ISCols) EXCEPT ![b.year]["Revenue"] = b.revenue]

SeedIS(b, ys) ==
    [EmptyFrame(ys, ISCols) EXCEPT ![b.year]["Revenue"] = b.revenue,
                                   ![b.year]["Net Income"] = b.net_income]

BaseAssets(b) ==
    Add(Add(Add(b.cash, b.ppe_net), b.other_current_assets), b.other_noncurrent_assets)

SeedBS(b, ys) ==
    [EmptyFrame(ys, BSCols) EXCEPT ![b.year]["Cash"] = b.cash,
                                   ![b.year]["Debt"] = b.long_term_debt,
                                   ![b.year]["Equity"] = b.common_equity,
                                   ![b.year]["Assets"] = BaseAssets(b)]

Margin(as) == Sub(Sub(Sub(One, as.cogs_pct_rev), as.sga_pct_rev), as.da_pct_rev)

TaxesNoFloor(ebit, interest, as) == Mul(Sub(ebit, interest), as.tax_rate)

Taxes(ebit, interest, as) == Max0(Mul(Sub(ebit, interest), as.tax_rate))

DebtOfCash(as, bs0) == Mul(as.target_debt_pct_assets, bs0["Cash"])

DebtOf(as, bs0) == Mul(as.target_debt_pct_assets, bs0["Assets"])

AssetsOfNoEquity(cash, debt, equity) == Add(cash, debt)

AssetsOf(cash, debt, equity) == Add(Add(cash, debt), equity)

\* df.round(2).  The frames are created without data, so their columns are
\* object-dtype; whether DataFrame.round rounds such columns or returns them
\* as they are depends on the pandas release, which the repository does not
\* pin: acts says which.
DataFrameRound(df, acts) ==
    [y \in DOMAIN df |-> [c \in DOMAIN df[y] |->
        IF acts THEN Round2(df[y][c]) ELSE df[y][c]]]

\* Lines 162-170.
Seed ==
    /\ pc = "start"
    /\ years' = YearsList(base, a)
    /\ IS' = SeedIS(base, years')
    /\ BS' = SeedBS(base, years')
    /\ CF' = EmptyFrame(years', CFCols)
    /\ yi' = 2
    /\ pc' = "loop"
    /\ UNCHANGED <<base, a, objectRound, loc, out>>

\* One iteration of the loop of lines 172-191, for y = years[yi].
Step ==
    /\ pc = "loop"
    /\ yi <= Len(years)
    /\ LET y        == years[yi]
           y0       == y - 1
           revenue  == Mul(IS[y0]["Revenue"], Add(One, a.revenue_growth))
           ebit     == Mul(revenue, Margin(a))
           interest == Mul(BS[y0]["Debt"], a.interest_pct_debt)
           taxes    == Taxes(ebit, interest, a)
           ni       == Sub(Sub(ebit, interest), taxes)
           equity   == Add(BS[y0]["Equity"], ni)
           debt     == DebtOf(a, BS[y0])
           capex    == Mul(revenue, a.capex_pct_rev)
           cfo      == ni
           cfi      == Neg(capex)
           cff      == Sub(debt, BS[y0]["Debt"])
           dcash    == Add(Add(cfo, cfi), cff)
           cash     == Add(BS[y0]["Cash"], dcash)
           assets   == AssetsOf(cash, debt, equity)
       IN  /\ IS' = [IS EXCEPT ![y] = [c \in ISCols |->
                        CASE c = "Revenue" -> revenue
                          [] c = "EBIT" -> ebit
                          [] OTHER -> ni]]
           /\ BS' = [BS EXCEPT ![y] = [c \in BSCols |->
                        CASE c = "Cash" -> cash
                          [] c = "Debt" -> debt
                          [] c = "Equity" -> equity
                          [] OTHER -> assets]]
           /\ CF' = [CF EXCEPT ![y] = [c \in CFCols |->
                        CASE c = "CFO" -> cfo
                          [] c = "CFI" -> cfi
                          [] c = "CFF" -> cff
                          [] OTHER -> dcash]]
           /\ loc' = [ebit |-> ebit, interest |-> interest, taxes |-> taxes,
                      ni |-> ni, capex |-> capex]
    /\ yi' = yi + 1
    /\ UNCHANGED <<base, a, objectRound, pc, years, out>>

\* Line 193.
Return ==
    /\ pc = "loop"
    /\ yi > Len(years)
    /\ out' = [IS |-> DataFrameRound(IS, objectRound),
               BS |-> DataFrameRound(BS, objectRound),
               CF |-> DataFrameRound(CF, objectRound)]
    /\ pc' = "done"
    /\ UNCHANGED <<base, a, objectRound, years, yi, IS, BS, CF, loc>>

----------------------------------------------------------------------------
(* Properties of forecast.                                                 *)

Projected == { years[i] : i \in 2..Len(years) }

\* The projected years whose row the loop has already written.
Written == { years[i] : i \in 2..(yi - 1) }

Frames(o) == {o.IS, o.BS, o.CF}

HorizonRows == (IF a.years > 0 THEN a.years ELSE 0) + 1

RowSum(row) == Add(Add(row["Cash"], row["Debt"]), row["Equity"])

\* C2 as stated: in the returned (rounded) balance sheet every projected
\* row has Assets = Cash + Debt + Equity exactly.
C2_RoundedIdentity ==
    pc = "done" => \A y \in Projected : out.BS[y]["Assets"] = RowSum(out.BS[y])

\* C2 as amended: the identity Assets = Cash + Debt + Equity is exact in the
\* balance sheet before the rounding on return; in the returned table the
\* two sides differ by at most 0.02.
C2_Identity ==
    /\ \A y \in Written : BS[y]["Assets"] = RowSum(BS[y])
    /\ pc = "done" =>
          \A y \in Projected :
              Leq(Abs(Sub(out.BS[y]["Assets"], RowSum(out.BS[y]))), Amt(2))

C2_Witness ==
    /\ pc = "done"
    /\ \E y \in Projected :
          /\ BS[y]["Assets"] = RowSum(BS[y])
          /\ out.BS[y]["Assets"] # RowSum(out.BS[y])

LastYear == years[yi - 1]

PreTax == Sub(loc.ebit, loc.interest)

\* C3: in every iteration the taxes are >= 0, net income is
\* EBIT - Interest - Taxes, never above EBIT - Interest, and equal to it
\* whenever (EBIT - Interest) * tax_rate <= 0.
C3_TaxFloor ==
    (pc \in {"loop", "done"} /\ yi > 2) =>
        /\ Leq(Zero, loc.taxes)
        /\ loc.ebit = IS[LastYear]["EBIT"]
        /\ loc.interest = Mul(BS[LastYear - 1]["Debt"], a.interest_pct_debt)
        /\ IS[LastYear]["Net Income"] = Sub(PreTax, loc.taxes)
        /\ Leq(IS[LastYear]["Net Income"], PreTax)
        /\ Leq(Mul(PreTax, a.tax_rate), Zero) => IS[LastYear]["Net Income"] = PreTax

C3_Witness ==
    /\ pc = "loop"
    /\ yi > 2
    /\ Lt(PreTax, Zero)
    /\ Lt(Zero, a.tax_rate)
    /\ loc.taxes = Zero
    /\ IS[LastYear]["Net Income"] = PreTax

RefInterest(y) == Mul(BS[y - 1]["Debt"], a.interest_pct_debt)

RefTaxes(y) == Max0(Mul(Sub(IS[y]["EBIT"], RefInterest(y)), a.tax_rate))

\* C4: every written projected row is the reference recurrence applied to
\* the preceding year's unrounded row: interest on the prior year's debt,
\* debt as the target share of the prior year's assets (the base-year assets
\* for the first projected year), and the cash-flow identities.
C4_Recurrence ==
    /\ pc \in {"loop", "done"} =>
          BS[base.year]["Assets"] =
              Add(Add(Add(base.cash, base.ppe_net), base.other_current_assets),
                  base.other_noncurrent_assets)
    /\ \A y \in Written :
          /\ IS[y]["Revenue"] = Mul(IS[y - 1]["Revenue"], Add(One, a.revenue_growth))
          /\ IS[y]["EBIT"] =
                Mul(IS[y]["Revenue"],
                    Sub(Sub(Sub(One, a.cogs_pct_rev), a.sga_pct_rev), a.da_pct_rev))
          /\ IS[y]["Net Income"] =
                Sub(Sub(IS[y]["EBIT"], RefInterest(y)), RefTaxes(y))
          /\ BS[y]["Equity"] = Add(BS[y - 1]["Equity"], IS[y]["Net Income"])
          /\ BS[y]["Debt"] = Mul(a.target_debt_pct_assets, BS[y - 1]["Assets"])
          /\ CF[y]["CFO"] = IS[y]["Net Income"]
          /\ CF[y]["CFI"] = Neg(Mul(IS[y]["Revenue"], a.capex_pct_rev))
          /\ CF[y]["CFF"] = Sub(BS[y]["Debt"], BS[y - 1]["Debt"])
          /\ CF[y]["DeltaCash"] = Add(Add(CF[y]["CFO"], CF[y]["CFI"]), CF[y]["CFF"])
          /\ BS[y]["Cash"] = Add(BS[y - 1]["Cash"], CF[y]["DeltaCash"])

C4_Witness ==
    /\ pc = "done"
    /\ Len(years) = 3
    /\ BS[years[2]]["Debt"] # BS[years[3]]["Debt"]
    /\ BS[years[2]]["Debt"] # Zero
    /\ a.interest_pct_debt # Zero
    /\ BS[years[3]]["Debt"] = Mul(a.target_debt_pct_assets, BS[years[2]]["Assets"])
    /\ BS[years[2]]["Assets"] # BS[years[3]]["Assets"]

Populated(row) == \A c \in DOMAIN row : row[c] # NaN

\* C5 as stated: with years >= 1 every cell of every row of the three
\* returned tables, the base-year row's included, holds a number.
C5_AllCells ==
    (pc = "done" /\ a.years >= 1) =>
        \A f \in Frames(out) : \A y \in DOMAIN f : Populated(f[y])

\* C5 as amended: with years >= 1 every cell of every projected row holds a
\* number, and so do the base-year row's Revenue, Net Income, Cash, Debt,
\* Equity and Assets; the base-year row's EBIT and the base-year row of the
\* cash-flow table are never assigned and stay NaN.
C5_Populated ==
    (pc = "done" /\ a.years >= 1) =>
        /\ \A f \in Frames(out) : \A y \in Projected : Populated(f[y])
        /\ \A c \in {"Revenue", "Net Income"} : out.IS[base.year][c] # NaN
        /\ Populated(out.BS[base.year])
        /\ out.IS[base.year]["EBIT"] = NaN
        /\ \A c \in CFCols : out.CF[base.year][c] = NaN

C5_Witness ==
    /\ pc = "done"
    /\ a.years >= 1
    /\ Len(years) = a.years + 1
    /\ out.IS[base.year]["EBIT"] = NaN
    /\ out.IS[years[2]]["EBIT"] # NaN



----------------------------------------------------------------------------
(* Company facts.  facts[tag] stands for                                   *)
(* facts["facts"]["us-gaap"][tag]["units"]["USD"]: absent when any key on  *)
(* that path is missing, else a list of records.  Dates are yyyymmdd       *)
(* integers, ordered as their ISO strings are; 0 stands for a record       *)
(* without that key ("" in the sort key) and fy = 0 for a record without   *)
(* a fiscal year.                                                          *)

Tags ==
    {"Revenues", "CostOfRevenue", "SellingGeneralAndAdministrativeExpense",
     "DepreciationDepletionAndAmortization", "InterestExpense", "NetIncomeLoss",
     "Assets", "Liabilities", "CashAndCashEquivalentsAtCarryingValue",
     "AccountsReceivableNetCurrent", "InventoryNet", "PropertyPlantAndEquipmentNet",
     "AccountsPayableCurrent", "AccruedLiabilitiesCurrent", "LongTermDebtNoncurrent",
     "StockholdersEquity"}

Rec(fp, end, filed, fy, val) ==
    [fp |-> fp, end |-> end, filed |-> filed, fy |-> fy, val |-> val]

Absent == [present |-> FALSE, items |-> <<>>]

Listed(items) == [present |-> TRUE, items |-> items]

None == [some |-> FALSE]

Some(year, val) == [some |-> TRUE, year |-> year, val |-> val]

\* x.get("fp") == "FY"
IsAnnual(x) == x.fp = "FY"

KeyLeqFiledFirst(x, y) ==
    \/ x.filed < y.filed
    \/ x.filed = y.filed /\ x.end <= y.end

\* (x.end, x.filed) <= (y.end, y.filed), as tuples.
KeyLeq(x, y) ==
    \/ x.end < y.end
    \/ x.end = y.end /\ x.filed <= y.filed

RECURSIVE Insert(_, _)
\* s with x put behind every element whose key is <= x's (s is sorted).
Insert(s, x) ==
    IF s = <<>> THEN <<x>>
    ELSE IF KeyLeq(s[Len(s)], x) THEN Append(s, x)
    ELSE Append(Insert(SubSeq(s, 1, Len(s) - 1), x), s[Len(s)])

RECURSIVE Sorted(_)
\* Python's sorted(s, key=...): stable.
Sorted(s) ==
    IF s = <<>> THEN <<>>
    ELSE Insert(Sorted(SubSeq(s, 1, Len(s) - 1)), s[Len(s)])

\* latest.get("fy") or int(latest.get("end", "0000")[:4])
YearOf(latest) == IF latest.fy # 0 THEN latest.fy ELSE latest.end \div 10000

pick_latest_annual_usd(f, tag) ==
    IF ~f[tag].present THEN None
    ELSE LET annual == SelectSeq(f[tag].items, IsAnnual)
         IN  IF annual = <<>> THEN None
             ELSE LET latest == Sorted(annual)[Len(annual)]
                  IN  Some(YearOf(latest), Amt(latest.val))

\* out[1] if out else 0.0
get(f, tag) ==
    LET o == pick_latest_annual_usd(f, tag)
    IN  IF o.some THEN o.val ELSE Zero

\* x or y, on floats.
Or(x, y) == IF x # Zero THEN x ELSE y

OtherResidualSigned(total, parts) == Sub(total, parts)

\* max(0.0, total - parts)
OtherResidual(total, parts) == Max0(Sub(total, parts))

NoBaseYear == BaseYearOf(0, NaN, NaN, NaN, NaN, NaN, NaN, NaN)

Returned(b) == [error |-> "none", value |-> b]

Raised(e) == [error |-> e, value |-> NoBaseYear]

YearOrZero(f) ==
    LET o == pick_latest_annual_usd(f, "Revenues")
    IN  IF o.some THEN Returned(o.year) ELSE Returned(0)

\* pick_latest_annual_usd(facts, "Revenues")[0]: subscripting None raises.
BaseYearYear(f) ==
    LET o == pick_latest_annual_usd(f, "Revenues")
    IN  IF o.some THEN Returned(o.year) ELSE Raised("TypeError")

\* Lines 112-158, on the facts that fetch_companyfacts returned.
build_base_year_from_sec(f) ==
    LET revenue     == get(f, "Revenues")
        cogs        == get(f, "CostOfRevenue")
        sga         == get(f, "SellingGeneralAndAdministrativeExpense")
        da          == get(f, "DepreciationDepletionAndAmortization")
        interest    == get(f, "InterestExpense")
        net_income  == get(f, "NetIncomeLoss")
        assets      == get(f, "Assets")
        liabilities == get(f, "Liabilities")
        cash        == get(f, "CashAndCashEquivalentsAtCarryingValue")
        ar          == get(f, "AccountsReceivableNetCurrent")
        inventory   == get(f, "InventoryNet")
        ppe         == get(f, "PropertyPlantAndEquipmentNet")
        ap          == get(f, "AccountsPayableCurrent")
        accrued     == get(f, "AccruedLiabilitiesCurrent")
        debt        == get(f, "LongTermDebtNoncurrent")
        equity      == Or(get(f, "StockholdersEquity"), Sub(assets, liabilities))
        other_assets == OtherResidual(assets, Add(Add(Add(cash, ar), inventory), ppe))
        other_liab  == OtherResidual(liabilities, Add(Add(ap, accrued), debt))
        year        == BaseYearYear(f)
    IN  IF year.error # "none" THEN Raised(year.error)
        ELSE Returned(
            [year |-> year.value, revenue |-> revenue, cogs |-> cogs, sga |-> sga,
             da |-> da, interest |-> interest, tax_rate |-> BaseTaxRatePct,
             net_income |-> net_income, cash |-> cash, ar |-> ar,
             inventory |-> inventory,
             other_current_assets |-> Mul(other_assets, Half),
             ppe_net |-> ppe,
             other_noncurrent_assets |-> Mul(other_assets, Half),
             ap |-> ap, accrued_liabilities |-> accrued,
             other_current_liabilities |-> Mul(other_liab, Half),
             long_term_debt |-> debt,
             other_noncurrent_liabilities |-> Mul(other_liab, Half),
             common_equity |-> equity])

----------------------------------------------------------------------------
(* Bounds and input sets of the normalizer and of the selection.           *)

\* Concepts present in one facts mapping of the normalizer's inputs.
MaxPresent == 3

\* Records in the one concept's list of the selection's inputs.
MaxItems == 3

QuarterRec == Rec("Q1", 20240331, 20240501, 2024, 7)

ItemLists ==
    { <<Rec("FY", 20231231, 20240201, 2023, 100), QuarterRec>>,
      <<Rec("FY", 20221231, 20230201, 2022, 35)>>,
      <<Rec("FY", 20231231, 20240201, 2023, 0)>>,
      <<QuarterRec>> }

FactsOver(S, g) == [t \in Tags |-> IF t \in S THEN Listed(g[t]) ELSE Absent]

PresentSets == { T \in SUBSET Tags : Cardinality(T) <= MaxPresent }

RecPool ==
    { Rec("FY", 20231231, 20240201, 2023, 1),
      Rec("FY", 20231231, 20240301, 2023, 2),
      Rec("FY", 20221231, 20240301, 2023, 3),
      Rec("Q1", 20240331, 20240501, 2024, 4),
      Rec("FY", 0, 20240301, 0, 5),
      Rec("FY", 20231231, 20240301, 0, 6) }

ListsUpTo(n) == UNION { [1..k -> RecPool] : k \in 0..n }

PickTags == {"Revenues", "Assets"}

PickFacts ==
    { [t \in Tags |-> IF t = "Revenues" THEN Listed(l) ELSE Absent] : l \in ListsUpTo(MaxItems) }
    \cup { [t \in Tags |-> Absent] }

ForecastIdle ==
    /\ base = NoBaseYear
    /\ a = <<>>
    /\ objectRound = FALSE
    /\ pc = "idle"
    /\ years = <<>>
    /\ yi = 0
    /\ IS = NoFrame
    /\ BS = NoFrame
    /\ CF = NoFrame
    /\ loc = NoLocals
    /\ out = NoOut

Build ==
    /\ npc = "start"
    /\ norm' = build_base_year_from_sec(facts)
    /\ npc' = "done"
    /\ UNCHANGED <<facts, picked>>

InitNorm ==
    /\ \E S \in PresentSets : \E g \in [S -> ItemLists] : facts = FactsOver(S, g)
    /\ npc = "start"
    /\ norm = <<>>
    /\ picked = <<>>
    /\ ForecastIdle

NextNorm == Build /\ UNCHANGED fvars

SpecNorm == InitNorm /\ [][NextNorm]_vars

Pick(tag) ==
    /\ npc = "start"
    /\ picked' = [tag |-> tag, result |-> pick_latest_annual_usd(facts, tag)]
    /\ npc' = "picked"
    /\ UNCHANGED <<facts, norm>>

InitPick ==
    /\ facts \in PickFacts
    /\ npc = "start"
    /\ norm = <<>>
    /\ picked = <<>>
    /\ ForecastIdle

NextPick == \E tag \in PickTags : Pick(tag) /\ UNCHANGED fvars

SpecPick == InitPick /\ [][NextPick]_vars


----------------------------------------------------------------------------
(* Properties of the normalizer and of the selection.                      *)

AnnualIdx(tag) ==
    IF facts[tag].present
    THEN { i \in 1..Len(facts[tag].items) : facts[tag].items[i].fp = "FY" }
    ELSE {}

HasAnnual(tag) == AnnualIdx(tag) # {}

\* The BaseYear field that carries a concept's value as it is.
FieldOf ==
    [Revenues |-> "revenue", CostOfRevenue |-> "cogs",
     SellingGeneralAndAdministrativeExpense |-> "sga",
     DepreciationDepletionAndAmortization |-> "da",
     InterestExpense |-> "interest", NetIncomeLoss |-> "net_income",
     CashAndCashEquivalentsAtCarryingValue |-> "cash",
     AccountsReceivableNetCurrent |-> "ar", InventoryNet |-> "inventory",
     PropertyPlantAndEquipmentNet |-> "ppe_net", AccountsPayableCurrent |-> "ap",
     AccruedLiabilitiesCurrent |-> "accrued_liabilities",
     LongTermDebtNoncurrent |-> "long_term_debt"]

BuiltOk == npc = "done" /\ norm.error = "none"

C7_Equity ==
    BuiltOk =>
        LET se == pick_latest_annual_usd(facts, "StockholdersEquity")
        IN  /\ se.some => norm.value.common_equity = se.val
            /\ ~se.some =>
                  norm.value.common_equity = Sub(get(facts, "Assets"), get(facts, "Liabilities"))

FloorAtZero(x) == IF x.num > 0 THEN x ELSE Zero

BalanceSheetTags ==
    {"Assets", "Liabilities", "CashAndCashEquivalentsAtCarryingValue",
     "AccountsReceivableNetCurrent", "InventoryNet", "PropertyPlantAndEquipmentNet",
     "AccountsPayableCurrent", "AccruedLiabilitiesCurrent", "LongTermDebtNoncurrent",
     "StockholdersEquity"}

\* C8: the two "other" asset buckets are equal, >= 0 and sum to
\* max(0, assets - (cash + ar + inventory + ppe_net)); likewise the two
\* "other" liability buckets with liabilities - (ap + accrued + debt); with
\* every balance-sheet concept absent the asset items are all 0.
C8_Residuals ==
    BuiltOk =>
        LET b == norm.value
        IN  /\ b.other_current_assets = b.other_noncurrent_assets
            /\ Leq(Zero, b.other_current_assets)
            /\ Add(b.other_current_assets, b.other_noncurrent_assets) =
                  FloorAtZero(Sub(get(facts, "Assets"),
                      Add(Add(Add(b.cash, b.ar), b.inventory), b.ppe_net)))
            /\ b.other_current_liabilities = b.other_noncurrent_liabilities
            /\ Leq(Zero, b.other_current_liabilities)
            /\ Add(b.other_current_liabilities, b.other_noncurrent_liabilities) =
                  FloorAtZero(Sub(get(facts, "Liabilities"),
                      Add(Add(b.ap, b.accrued_liabilities), b.long_term_debt)))
            /\ (\A t \in BalanceSheetTags : ~HasAnnual(t)) =>
                  \A fld \in {"other_current_assets", "other_noncurrent_assets",
                              "cash", "ar", "inventory", "ppe_net"} : b[fld] = Zero

C8_Witness ==
    /\ BuiltOk
    /\ norm.value.cash = Amt(35)
    /\ norm.value.other_current_assets = D(65, 1)
    /\ norm.value.other_noncurrent_assets = D(65, 1)

PickedItems == facts[picked.tag].items

\* C9: the selection returns the value of an annual record with the latest
\* period end and, among those, the latest filing date; a quarterly record
\* is never selected; without an annual record it returns None.
C9_Latest ==
    npc = "picked" =>
        IF ~HasAnnual(picked.tag) THEN picked.result = None
        ELSE /\ picked.result.some
             /\ \E i \in AnnualIdx(picked.tag) :
                   /\ picked.result.val = Amt(PickedItems[i].val)
                   /\ \A j \in AnnualIdx(picked.tag) :
                         \/ PickedItems[j].end < PickedItems[i].end
                         \/ /\ PickedItems[j].end = PickedItems[i].end
                            /\ PickedItems[j].filed <= PickedItems[i].filed

C9_Witness ==
    /\ npc = "picked"
    /\ picked.tag = "Revenues"
    /\ Len(PickedItems) = 3
    /\ PickedItems[1].fp = "FY" /\ PickedItems[1].end = 20231231 /\ PickedItems[1].filed = 20240301
    /\ PickedItems[2].fp = "Q1" /\ PickedItems[2].end > PickedItems[1].end
    /\ PickedItems[3].fp = "FY" /\ PickedItems[3].end = 20231231 /\ PickedItems[3].filed = 20240201
    /\ picked.result = Some(2023, Amt(PickedItems[1].val))

\* C10: every line item that is not defaulted comes from an annual record of
\* the fiscal year BaseYear.year.
C10_OneFiscalYear ==
    BuiltOk =>
        \A t \in Tags :
            pick_latest_annual_usd(facts, t).some =>
                pick_latest_annual_usd(facts, t).year = norm.value.year


NormIdle ==
    /\ facts = <<>>
    /\ npc = "idle"
    /\ norm = <<>>
    /\ picked = <<>>

Init ==
    /\ base \in BaseYears
    /\ a \in AssumptionSets
    /\ objectRound \in BOOLEAN
    /\ pc = "start"
    /\ years = <<>>
    /\ yi = 0
    /\ IS = NoFrame
    /\ BS = NoFrame
    /\ CF = NoFrame
    /\ loc = NoLocals
    /\ out = NoOut
    /\ NormIdle

Next ==
    \/ Seed /\ UNCHANGED nvars
    \/ Step /\ UNCHANGED nvars
    \/ Return /\ UNCHANGED nvars

Spec == Init /\ [][Next]_vars

====
